---- MODULE Spec2Model ----
(***************************************************************************)
(* BabelStream back-ends: the parallel-STL indices back-end                *)
(* (src/src/std-indices/STDIndicesStream.cpp) and the Thrust back-end      *)
(* (src/src/thrust/ThrustStream.cu, ThrustStream.h).                       *)
(*                                                                         *)
(* The element type T (float or double) is modelled by the integers: every *)
(* value the model computes is a small integer, which both IEEE formats    *)
(* represent and add and multiply exactly.  Rounding is therefore outside  *)
(* the model.  C++ indices 0..array_size-1 are the TLA+ indices            *)
(* 1..array_size.                                                          *)
(***************************************************************************)
EXTENDS Integers, Sequences, FiniteSets, TLC

\* ------------------------------------------------------------------ bounds
\* Largest array size a run asks for
MaxN == 2
\* Largest number of contract operations called in one run
MaxCalls == 3
\* Number of devices the machine has (device ids 0..DeviceCount-1)
DeviceCount == 1

Sizes == 0..MaxN
\* device selectors a run may ask for; DeviceCount itself names no device
Devices == 0..DeviceCount
\* values the driver passes to init_arrays
InitVals == {1, 2}
\* seeds of the contents of storage that was allocated and never written
GarbageSeeds == {0, 3}
\* values of the macro startScalar the build may be compiled with
Scalars == {2}
\* the Thrust device systems a build selects (TBB and CPP behave as OMP)
DeviceSystems == {"CUDA", "HIP", "OMP"}

VARIABLES
  build,    \* compile-time switches: USE_VECTOR, THRUST_DEVICE_SYSTEM, startScalar
  req,      \* what the driver asked the constructor for: N and device
  status,   \* "start" (nothing constructed), "ready", "fatal" (process exited)
  impl,     \* the class instantiated: "none", "std", "thrust", "both"
  be,       \* the back-end instance and the caller's buffers it fills
  be2,      \* the second (Thrust) instance of a side-by-side run
  init,     \* the arguments of the last init_arrays, <<>> before the first
  hist,     \* the operations called since (and including) the last init_arrays
  ncalls,   \* number of contract operations called so far
  pc,       \* the operation in flight between its thrust calls and its return
  fly       \* the per-element tasks of a kernel in flight

vars == <<build, req, status, impl, be, be2, init, hist, ncalls, pc, fly>>

\* ----------------------------------------------------------------- helpers
Fill(n, v) == [i \in 1..n |-> v]

\* contents of raw storage nobody has written: any values; the model draws
\* non-uniform ones, g+1, g+2, ...
Uninit(n, g) == [i \in 1..n |-> g + i]

Perms(n) == {p \in [1..n -> 1..n] : \A i, j \in 1..n : i # j => p[i] # p[j]}

\* left-to-right sum of a sequence, starting from acc
RECURSIVE SumFrom(_, _)
SumFrom(acc, s) == IF s = <<>> THEN acc ELSE SumFrom(acc + Head(s), Tail(s))

NoStream ==
  [live |-> FALSE, array_size |-> 0, a |-> <<>>, b |-> <<>>, c |-> <<>>,
   h_a |-> <<>>, h_b |-> <<>>, h_c |-> <<>>, sum |-> 0,
   pending |-> <<>>, synced |-> FALSE]

Idle == [k |-> "none", todo |-> {}, loaded |-> {}, tmp |-> <<>>, pre |-> NoStream]

\* the caller's three host vectors, sized exactly N, zero-filled
HostBuffers(s, n) ==
  [s EXCEPT !.h_a = Fill(n, 0), !.h_b = Fill(n, 0), !.h_c = Fill(n, 0)]

\* --------------------------------------------------- STDIndicesStream<T>
STD_alloc(n, g) == IF build.USE_VECTOR THEN Fill(n, 0) ELSE Uninit(n, g)

STDIndicesStream(n, ga, gb, gc) ==
  HostBuffers([NoStream EXCEPT !.live = TRUE, !.array_size = n,
                 !.a = STD_alloc(n, ga), !.b = STD_alloc(n, gb),
                 !.c = STD_alloc(n, gc)], n)

\* init_arrays with the second fill given the first value
STD_init_arrays_pasted(s, initA, initB, initC) ==
  [s EXCEPT !.a = Fill(s.array_size, initA),
            !.b = Fill(s.array_size, initA),
            !.c = Fill(s.array_size, initC)]

STD_init_arrays(s, initA, initB, initC) ==
  [s EXCEPT !.a = Fill(s.array_size, initA),
            !.b = Fill(s.array_size, initB),
            !.c = Fill(s.array_size, initC)]

STD_read_arrays(s) ==
  [s EXCEPT !.h_a = [i \in 1..s.array_size |-> s.a[i]],
            !.h_b = [i \in 1..s.array_size |-> s.b[i]],
            !.h_c = [i \in 1..s.array_size |-> s.c[i]]]

\* the value each kernel's lambda returns for index i
\* a copy that accumulates into c
STD_copy_elem_acc(s, i) == s.a[i] + s.c[i]
STD_copy_elem(s, i) == s.a[i]
STD_mul_elem(s, i) == build.startScalar * s.c[i]
STD_add_elem(s, i) == s.a[i] + s.b[i]
\* a triad that forgets the scalar
STD_triad_elem_noscalar(s, i) == s.b[i] + s.c[i]
STD_triad_elem(s, i) == s.b[i] + build.startScalar * s.c[i]
\* an nstream that reads a at the next index (cyclically)
STD_nstream_elem_neighbour(s, i) ==
  s.a[(i % s.array_size) + 1] + s.b[i] + build.startScalar * s.c[i]
STD_nstream_elem(s, i) == s.a[i] + s.b[i] + build.startScalar * s.c[i]

STD_copy(s) == [s EXCEPT !.c = [i \in 1..s.array_size |-> STD_copy_elem(s, i)]]
\* a mul whose output iterator is BEGIN(c)
STD_mul_into_c(s) == [s EXCEPT !.c = [i \in 1..s.array_size |-> STD_mul_elem(s, i)]]
STD_mul(s) == [s EXCEPT !.b = [i \in 1..s.array_size |-> STD_mul_elem(s, i)]]
STD_add(s) == [s EXCEPT !.c = [i \in 1..s.array_size |-> STD_add_elem(s, i)]]
STD_triad(s) == [s EXCEPT !.a = [i \in 1..s.array_size |-> STD_triad_elem(s, i)]]
STD_nstream(s) == [s EXCEPT !.a = [i \in 1..s.array_size |-> STD_nstream_elem(s, i)]]

\* a reduction that stops one element short of END(a)
STD_dot_short(s, p) ==
  [s EXCEPT !.sum = SumFrom(0, [k \in 1..(s.array_size - 1) |-> s.a[p[k]] * s.b[p[k]]])]

\* transform_reduce from 0.0: the products a[i]*b[i] summed in an order p the
\* execution policy chooses
STD_dot(s, p) ==
  [s EXCEPT !.sum = SumFrom(0, [k \in 1..s.array_size |-> s.a[p[k]] * s.b[p[k]]])]

\* ------------------------------------------------------- ThrustStream<T>
\* One unit of device work a thrust algorithm launches.
Task(kind, dst, val) == [kind |-> kind, dst |-> dst, val |-> val]

Thrust_copy_elem(s, i) == s.a[i]
\* a lambda that adds the scalar where it should multiply by it
Thrust_mul_elem_plus(s, i) == s.c[i] + build.startScalar
Thrust_mul_elem(s, i) == s.c[i] * build.startScalar
Thrust_add_elem(s, i) == s.a[i] + s.b[i]
Thrust_triad_elem(s, i) == s.b[i] + build.startScalar * s.c[i]
\* an nstream that assigns where it should accumulate
Thrust_nstream_elem_assign(s, i) == s.b[i] + build.startScalar * s.c[i]
Thrust_nstream_elem(s, i) == s.a[i] + s.b[i] + build.startScalar * s.c[i]

\* the device executes one unit of work on the arrays as they are then
Exec(s, t) ==
  CASE t.kind = "fill" -> [s EXCEPT ![t.dst] = Fill(s.array_size, t.val)]
    [] t.kind = "copy" -> [s EXCEPT !.c = [i \in 1..s.array_size |-> Thrust_copy_elem(s, i)]]
    [] t.kind = "mul" -> [s EXCEPT !.b = [i \in 1..s.array_size |-> Thrust_mul_elem(s, i)]]
    [] t.kind = "add" -> [s EXCEPT !.c = [i \in 1..s.array_size |-> Thrust_add_elem(s, i)]]
    [] t.kind = "triad" -> [s EXCEPT !.a = [i \in 1..s.array_size |-> Thrust_triad_elem(s, i)]]
    [] t.kind = "nstream" -> [s EXCEPT !.a = [i \in 1..s.array_size |-> Thrust_nstream_elem(s, i)]]

\* the device runs everything queued, oldest first
RECURSIVE Drain(_)
Drain(s) ==
  IF s.pending = <<>> THEN s
  ELSE Drain(Exec([s EXCEPT !.pending = Tail(@)], Head(s.pending)))

\* A thrust algorithm on device vectors.  rocThrust (HIP) does not synchronise
\* between thrust calls: the call returns with its work queued.  Every other
\* device system has finished the work when the call returns.
thrust_call(s, t) ==
  IF build.THRUST_DEVICE_SYSTEM = "HIP"
  THEN [s EXCEPT !.pending = Append(@, t)]
  ELSE Exec(s, t)

\* thrust::copy from a device vector to a host vector: a blocking transfer,
\* ordered after the work queued before it
copy_to_host(s, src, dst) ==
  LET d == Drain(s) IN [d EXCEPT ![dst] = [i \in 1..d.array_size |-> d[src][i]]]

\* the variant of synchronise() a build without the HIP branch has
synchronise_nothing(s) == [s EXCEPT !.synced = TRUE]

synchronise(s) ==
  [(IF build.THRUST_DEVICE_SYSTEM = "HIP" THEN Drain(s) ELSE s) EXCEPT !.synced = TRUE]

\* the operations whose body ends with a call of synchronise()
Synchronised == {"init_arrays", "copy", "mul", "add", "triad", "nstream"}

\* the tail of a contract operation, after its thrust calls
Thrust_return(op, s) == IF op \in Synchronised THEN synchronise(s) ELSE s

\* vector<T>(array_size): value-initialised device vectors
ThrustStream(n) ==
  HostBuffers([NoStream EXCEPT !.live = TRUE, !.array_size = n,
                 !.a = Fill(n, 0), !.b = Fill(n, 0), !.c = Fill(n, 0)], n)

\* getDeviceName(device) and getDeviceDriver(device) in the constructor:
\* check_error() exits when the CUDA/HIP runtime reports an error
DeviceLookupFails(dev) ==
  /\ build.THRUST_DEVICE_SYSTEM \in {"CUDA", "HIP"}
  /\ dev \notin 0..(DeviceCount - 1)

\* the thrust calls of each operation, before its synchronise()
Thrust_init_arrays_issue(s, initA, initB, initC) ==
  thrust_call(thrust_call(thrust_call([s EXCEPT !.synced = FALSE],
    Task("fill", "a", initA)), Task("fill", "b", initB)), Task("fill", "c", initC))

Thrust_read_arrays_issue(s) ==
  copy_to_host(copy_to_host(copy_to_host([s EXCEPT !.synced = FALSE],
    "a", "h_a"), "b", "h_b"), "c", "h_c")

Thrust_copy_issue(s) == thrust_call([s EXCEPT !.synced = FALSE], Task("copy", "c", 0))
Thrust_mul_issue(s) == thrust_call([s EXCEPT !.synced = FALSE], Task("mul", "b", 0))
Thrust_add_issue(s) == thrust_call([s EXCEPT !.synced = FALSE], Task("add", "c", 0))
Thrust_triad_issue(s) == thrust_call([s EXCEPT !.synced = FALSE], Task("triad", "a", 0))
Thrust_nstream_issue(s) == thrust_call([s EXCEPT !.synced = FALSE], Task("nstream", "a", 0))

\* thrust::inner_product from T{}: returns the value to the host, so the
\* reduction (and the work queued before it) has run; p is the order the
\* reduction combines the products in
Thrust_dot_issue(s, p) ==
  LET d == Drain([s EXCEPT !.synced = FALSE])
  IN [d EXCEPT !.sum = SumFrom(0, [k \in 1..d.array_size |-> d.a[p[k]] * d.b[p[k]]])]

\* the whole operations, call to return
Thrust_init_arrays(s, initA, initB, initC) ==
  Thrust_return("init_arrays", Thrust_init_arrays_issue(s, initA, initB, initC))
Thrust_read_arrays(s) == Thrust_return("read_arrays", Thrust_read_arrays_issue(s))
Thrust_copy(s) == Thrust_return("copy", Thrust_copy_issue(s))
Thrust_mul(s) == Thrust_return("mul", Thrust_mul_issue(s))
Thrust_add(s) == Thrust_return("add", Thrust_add_issue(s))
Thrust_triad(s) == Thrust_return("triad", Thrust_triad_issue(s))
Thrust_nstream(s) == Thrust_return("nstream", Thrust_nstream_issue(s))
Thrust_dot(s, p) == Thrust_return("dot", Thrust_dot_issue(s, p))

\* ------------------------------------------------------------ the program
Init ==
  /\ build \in [USE_VECTOR : BOOLEAN, THRUST_DEVICE_SYSTEM : DeviceSystems,
                startScalar : Scalars]
  /\ req = [N |-> 0, device |-> 0]
  /\ status = "start"
  /\ impl = "none"
  /\ be = NoStream
  /\ be2 = NoStream
  /\ init = <<>>
  /\ hist = <<>>
  /\ ncalls = 0
  /\ pc = "idle"
  /\ fly = Idle

\* new STDIndicesStream<T>(N, device): noexcept, the device is not looked at
Construct_STD ==
  /\ status = "start"
  /\ \E n \in Sizes, dev \in Devices, ga, gb, gc \in GarbageSeeds :
       /\ req' = [N |-> n, device |-> dev]
       /\ be' = STDIndicesStream(n, ga, gb, gc)
  /\ impl' = "std"
  /\ status' = "ready"
  /\ UNCHANGED <<build, be2, init, hist, ncalls, pc, fly>>

\* new ThrustStream<T>(N, device)
Construct_Thrust ==
  /\ status = "start"
  /\ \E n \in Sizes, dev \in Devices :
       /\ req' = [N |-> n, device |-> dev]
       /\ IF DeviceLookupFails(dev)
          THEN status' = "fatal" /\ be' = NoStream
          ELSE status' = "ready" /\ be' = ThrustStream(n)
  /\ impl' = "thrust"
  /\ UNCHANGED <<build, be2, init, hist, ncalls, pc, fly>>

\* the driver calls one operation of the active back-end and gets it back
Called(which, op, new) ==
  /\ status = "ready"
  /\ impl = which
  /\ pc = "idle"
  /\ fly = Idle
  /\ ncalls < MaxCalls
  /\ be' = new
  /\ hist' = Append(hist, op)
  /\ ncalls' = ncalls + 1
  /\ UNCHANGED <<build, req, status, impl, be2, init, pc, fly>>

CalledInit(which, new, args) ==
  /\ status = "ready"
  /\ impl = which
  /\ pc = "idle"
  /\ fly = Idle
  /\ ncalls < MaxCalls
  /\ be' = new
  /\ init' = args
  /\ hist' = <<"init_arrays">>
  /\ ncalls' = ncalls + 1
  /\ UNCHANGED <<build, req, status, impl, be2, pc, fly>>

STD_init_arrays_call ==
  \E x, y, z \in InitVals : CalledInit("std", STD_init_arrays(be, x, y, z), <<x, y, z>>)
STD_read_arrays_call == Called("std", "read_arrays", STD_read_arrays(be))
STD_copy_call == Called("std", "copy", STD_copy(be))
STD_mul_call == Called("std", "mul", STD_mul(be))
STD_add_call == Called("std", "add", STD_add(be))
STD_triad_call == Called("std", "triad", STD_triad(be))
STD_nstream_call == Called("std", "nstream", STD_nstream(be))
STD_dot_call == \E p \in Perms(be.array_size) : Called("std", "dot", STD_dot(be, p))

Thrust_init_arrays_call ==
  \E x, y, z \in InitVals : CalledInit("thrust", Thrust_init_arrays(be, x, y, z), <<x, y, z>>)
Thrust_read_arrays_call == Called("thrust", "read_arrays", Thrust_read_arrays(be))
Thrust_copy_call == Called("thrust", "copy", Thrust_copy(be))
Thrust_mul_call == Called("thrust", "mul", Thrust_mul(be))
Thrust_add_call == Called("thrust", "add", Thrust_add(be))
Thrust_triad_call == Called("thrust", "triad", Thrust_triad(be))
Thrust_nstream_call == Called("thrust", "nstream", Thrust_nstream(be))
Thrust_dot_call == \E p \in Perms(be.array_size) : Called("thrust", "dot", Thrust_dot(be, p))

Next ==
  \/ Construct_STD
  \/ Construct_Thrust
  \/ STD_init_arrays_call
  \/ STD_read_arrays_call
  \/ STD_copy_call
  \/ STD_mul_call
  \/ STD_add_call
  \/ STD_triad_call
  \/ STD_nstream_call
  \/ STD_dot_call
  \/ Thrust_init_arrays_call
  \/ Thrust_read_arrays_call
  \/ Thrust_copy_call
  \/ Thrust_mul_call
  \/ Thrust_add_call
  \/ Thrust_triad_call
  \/ Thrust_nstream_call
  \/ Thrust_dot_call

Spec == Init /\ [][Next]_vars

\* ----------------------------------------- both back-ends, side by side
\* the same request, the same build, one instance of each class
Construct_Both ==
  /\ status = "start"
  /\ \E n \in Sizes, dev \in Devices, ga, gb, gc \in GarbageSeeds :
       /\ req' = [N |-> n, device |-> dev]
       /\ IF DeviceLookupFails(dev)
          THEN status' = "fatal" /\ be' = NoStream /\ be2' = NoStream
          ELSE /\ status' = "ready"
               /\ be' = STDIndicesStream(n, ga, gb, gc)
               /\ be2' = ThrustStream(n)
  /\ impl' = "both"
  /\ UNCHANGED <<build, init, hist, ncalls, pc, fly>>

\* the same operation called on both instances
CalledBoth(op, new, new2) ==
  /\ status = "ready"
  /\ impl = "both"
  /\ ncalls < MaxCalls
  /\ be' = new
  /\ be2' = new2
  /\ hist' = Append(hist, op)
  /\ ncalls' = ncalls + 1
  /\ UNCHANGED <<build, req, status, impl, init, pc, fly>>

Both_init_arrays ==
  /\ status = "ready"
  /\ impl = "both"
  /\ ncalls < MaxCalls
  /\ \E x, y, z \in InitVals :
       /\ be' = STD_init_arrays(be, x, y, z)
       /\ be2' = Thrust_init_arrays(be2, x, y, z)
       /\ init' = <<x, y, z>>
  /\ hist' = <<"init_arrays">>
  /\ ncalls' = ncalls + 1
  /\ UNCHANGED <<build, req, status, impl, pc, fly>>

Both_read_arrays == CalledBoth("read_arrays", STD_read_arrays(be), Thrust_read_arrays(be2))
Both_copy == CalledBoth("copy", STD_copy(be), Thrust_copy(be2))
Both_mul == CalledBoth("mul", STD_mul(be), Thrust_mul(be2))
Both_add == CalledBoth("add", STD_add(be), Thrust_add(be2))
Both_triad == CalledBoth("triad", STD_triad(be), Thrust_triad(be2))
Both_nstream == CalledBoth("nstream", STD_nstream(be), Thrust_nstream(be2))
\* each engine combines the products in an order of its own
Both_dot ==
  \E p, q \in Perms(be.array_size) :
    CalledBoth("dot", STD_dot(be, p), Thrust_dot(be2, q))

NextEquiv ==
  \/ Construct_Both
  \/ Both_init_arrays
  \/ Both_read_arrays
  \/ Both_copy
  \/ Both_mul
  \/ Both_add
  \/ Both_triad
  \/ Both_nstream
  \/ Both_dot

SpecEquiv == Init /\ [][NextEquiv]_vars

\* ------------------------------------- one kernel as its per-element tasks
Kernels == {"copy", "mul", "add", "triad", "nstream"}

\* the array a kernel's output iterator points into
Dst(k) ==
  CASE k \in {"copy", "add"} -> "c"
    [] k = "mul" -> "b"
    [] k \in {"triad", "nstream"} -> "a"

\* what the task of index i computes from the arrays s it reads
KernelElem(which, k, s, i) ==
  CASE which = "std" /\ k = "copy" -> STD_copy_elem(s, i)
    [] which = "std" /\ k = "mul" -> STD_mul_elem(s, i)
    [] which = "std" /\ k = "add" -> STD_add_elem(s, i)
    [] which = "std" /\ k = "triad" -> STD_triad_elem(s, i)
    [] which = "std" /\ k = "nstream" -> STD_nstream_elem(s, i)
    [] which = "thrust" /\ k = "copy" -> Thrust_copy_elem(s, i)
    [] which = "thrust" /\ k = "mul" -> Thrust_mul_elem(s, i)
    [] which = "thrust" /\ k = "add" -> Thrust_add_elem(s, i)
    [] which = "thrust" /\ k = "triad" -> Thrust_triad_elem(s, i)
    [] which = "thrust" /\ k = "nstream" -> Thrust_nstream_elem(s, i)

\* the arrays a whole kernel call leaves, computed from the arrays s
KernelWhole(which, k, s) ==
  LET out == [i \in 1..s.array_size |-> KernelElem(which, k, s, i)]
  IN [s EXCEPT ![Dst(k)] = out]

\* the algorithm starts: one task per index of the range
Kernel_begin ==
  /\ status = "ready"
  /\ impl \in {"std", "thrust"}
  /\ fly = Idle
  /\ ncalls < MaxCalls
  /\ \E k \in Kernels :
       fly' = [k |-> k, todo |-> 1..be.array_size, loaded |-> {},
               tmp |-> Fill(be.array_size, 0), pre |-> be]
  /\ ncalls' = ncalls + 1
  /\ UNCHANGED <<build, req, status, impl, be, be2, init, hist, pc>>

\* the task of some index evaluates the lambda on the arrays as they are now
Task_load ==
  /\ \E i \in fly.todo \ fly.loaded :
       fly' = [fly EXCEPT !.tmp[i] = KernelElem(impl, fly.k, be, i),
                          !.loaded = @ \cup {i}]
  /\ UNCHANGED <<build, req, status, impl, be, be2, init, hist, ncalls, pc>>

\* the task of some index stores its value through the output iterator
Task_store ==
  /\ \E i \in fly.todo \cap fly.loaded :
       /\ be' = [be EXCEPT ![Dst(fly.k)][i] = fly.tmp[i]]
       /\ fly' = [fly EXCEPT !.todo = @ \ {i}]
  /\ UNCHANGED <<build, req, status, impl, be2, init, hist, ncalls, pc>>

\* every task has finished: the kernel call returns
Kernel_end ==
  /\ fly.k # "none"
  /\ fly.todo = {}
  /\ hist' = Append(hist, fly.k)
  /\ fly' = Idle
  /\ UNCHANGED <<build, req, status, impl, be, be2, init, ncalls, pc>>

NextTasks ==
  \/ Construct_STD
  \/ Construct_Thrust
  \/ STD_init_arrays_call
  \/ Thrust_init_arrays_call
  \/ Kernel_begin
  \/ Task_load
  \/ Task_store
  \/ Kernel_end

SpecTasks == Init /\ [][NextTasks]_vars

\* ------------------------- a Thrust operation as call, device work, return
\* the thrust calls of one operation have been made; its tail has not run
SyncCall(op, new) ==
  /\ status = "ready"
  /\ impl = "thrust"
  /\ pc = "idle"
  /\ ncalls < MaxCalls
  /\ be' = new
  /\ pc' = op
  /\ ncalls' = ncalls + 1
  /\ UNCHANGED <<build, req, status, impl, be2, init, hist, fly>>

Sync_init_arrays ==
  /\ status = "ready"
  /\ impl = "thrust"
  /\ pc = "idle"
  /\ ncalls < MaxCalls
  /\ \E x, y, z \in InitVals :
       /\ be' = Thrust_init_arrays_issue(be, x, y, z)
       /\ init' = <<x, y, z>>
  /\ pc' = "init_arrays"
  /\ ncalls' = ncalls + 1
  /\ UNCHANGED <<build, req, status, impl, be2, hist, fly>>

Sync_read_arrays == SyncCall("read_arrays", Thrust_read_arrays_issue(be))
Sync_copy == SyncCall("copy", Thrust_copy_issue(be))
Sync_mul == SyncCall("mul", Thrust_mul_issue(be))
Sync_add == SyncCall("add", Thrust_add_issue(be))
Sync_triad == SyncCall("triad", Thrust_triad_issue(be))
Sync_nstream == SyncCall("nstream", Thrust_nstream_issue(be))
Sync_dot == \E p \in Perms(be.array_size) : SyncCall("dot", Thrust_dot_issue(be, p))

\* the device runs the oldest unit of queued work, whenever it likes
Device_step ==
  /\ be.pending # <<>>
  /\ be' = Exec([be EXCEPT !.pending = Tail(@)], Head(be.pending))
  /\ UNCHANGED <<build, req, status, impl, be2, init, hist, ncalls, pc, fly>>

\* the rest of the operation's body runs and the operation returns
Sync_return ==
  /\ pc # "idle"
  /\ be' = Thrust_return(pc, be)
  /\ hist' = IF pc = "init_arrays" THEN <<pc>> ELSE Append(hist, pc)
  /\ pc' = "idle"
  /\ UNCHANGED <<build, req, status, impl, be2, init, ncalls, fly>>

\* The std-indices operations are calls of blocking parallel algorithms: each
\* is one step, call to return.
NextSync ==
  \/ Construct_STD
  \/ STD_init_arrays_call
  \/ STD_read_arrays_call
  \/ STD_copy_call
  \/ STD_mul_call
  \/ STD_add_call
  \/ STD_triad_call
  \/ STD_nstream_call
  \/ STD_dot_call
  \/ Construct_Thrust
  \/ Sync_init_arrays
  \/ Sync_read_arrays
  \/ Sync_copy
  \/ Sync_mul
  \/ Sync_add
  \/ Sync_triad
  \/ Sync_nstream
  \/ Sync_dot
  \/ Device_step
  \/ Sync_return

SpecSync == Init /\ [][NextSync]_vars

\* ------------------------------------------------------------- properties
Last(s) == s[Len(s)]

\* this step is a contract operation returning
Stepped == ncalls' = ncalls + 1
\* the operation of this step
Op == Last(hist')

Indices == 1..be.array_size

\* hist is init_arrays followed by nothing but nstream
OnlyNstreamSinceInit ==
  /\ Len(hist) >= 1
  /\ hist[1] = "init_arrays"
  /\ \A k \in 2..Len(hist) : hist[k] = "nstream"

\* C2: after init_arrays(x, y, z) and no kernel call, read_arrays fills the
\* caller's host buffers with N times x, N times y and N times z, whatever
\* the arrays held before init_arrays.
C2_InitThenRead ==
  (status = "ready" /\ hist = <<"init_arrays", "read_arrays">>) =>
    /\ be.h_a = Fill(req.N, init[1])
    /\ be.h_b = Fill(req.N, init[2])
    /\ be.h_c = Fill(req.N, init[3])

C2_Witness ==
  /\ impl = "std"
  /\ ~build.USE_VECTOR
  /\ req.N = 2
  /\ hist = <<"init_arrays", "read_arrays">>
  /\ init = <<1, 2, 1>>
  /\ be.h_a = <<1, 1>> /\ be.h_b = <<2, 2>> /\ be.h_c = <<1, 1>>

\* C3 (as claimed): a back-end that was constructed and is usable was asked
\* for a positive array size and for a device that exists.
C3_RejectsBadConfig ==
  status = "ready" => (req.N > 0 /\ req.device \in 0..(DeviceCount - 1))

\* C4: copy, mul, add and triad write, at every index of the whole
\* destination array, the value computed from the pre-call values at the
\* same index.
C4_Step ==
  Stepped =>
    /\ Op = "copy" => be'.c = [i \in Indices |-> be.a[i]]
    /\ Op = "mul" => be'.b = [i \in Indices |-> build.startScalar * be.c[i]]
    /\ Op = "add" => be'.c = [i \in Indices |-> be.a[i] + be.b[i]]
    /\ Op = "triad" => be'.a = [i \in Indices |-> be.b[i] + build.startScalar * be.c[i]]

C4_Elementwise == [][C4_Step]_vars

C4_Witness ==
  /\ impl = "std"
  /\ hist = <<"mul", "triad">>
  /\ req.N = 2
  /\ be.a[1] # be.a[2]
  /\ be.a[2] = be.b[2] + build.startScalar * be.c[2]

\* C5: after init_arrays(x, y, z) and R calls of nstream and nothing else,
\* every element of a is x + R * (y + scalar * z), and b and c hold y and z.
C5_NstreamRecurrence ==
  (status = "ready" /\ OnlyNstreamSinceInit) =>
    /\ be.a = Fill(req.N, init[1] + (Len(hist) - 1) * (init[2] + build.startScalar * init[3]))
    /\ be.b = Fill(req.N, init[2])
    /\ be.c = Fill(req.N, init[3])

C5_Witness ==
  /\ hist = <<"init_arrays", "nstream", "nstream">>
  /\ init = <<1, 1, 1>>
  /\ build.startScalar = 2
  /\ req.N = 2
  /\ be.a = <<7, 7>>

\* C6: dot returns the sum of a[i] * b[i] over all indices, in whatever order
\* the reduction combines them, and leaves a, b and c as they were; with
\* a = 1 and b = 2 everywhere it returns 2 * N.
C6_Step ==
  (Stepped /\ Op = "dot") =>
    /\ be'.sum = SumFrom(0, [i \in Indices |-> be.a[i] * be.b[i]])
    /\ be'.a = be.a /\ be'.b = be.b /\ be'.c = be.c
    /\ (be.a = Fill(req.N, 1) /\ be.b = Fill(req.N, 2)) => be'.sum = 2 * req.N

C6_Dot == [][C6_Step]_vars

C6_Witness ==
  /\ hist = <<"init_arrays", "dot">>
  /\ req.N = 2
  /\ be.a = <<1, 1>> /\ be.b = <<2, 2>>
  /\ be.sum = 4

\* C7: a copy that directly follows a copy changes nothing.
C7_Step ==
  (Stepped /\ Op = "copy" /\ Len(hist) >= 1 /\ Last(hist) = "copy") =>
    (be'.a = be.a /\ be'.b = be.b /\ be'.c = be.c)

C7_CopyIdempotent == [][C7_Step]_vars

C7_Witness ==
  /\ Len(hist) >= 2
  /\ hist[Len(hist)] = "copy" /\ hist[Len(hist) - 1] = "copy"
  /\ req.N = 2
  /\ be.c = be.a
  /\ be.a[1] # be.a[2]

\* C9: every operation writes only its destination array; no operation
\* changes the array size or the scalar, and the three arrays have length N
\* throughout.
C9_Step ==
  /\ Stepped =>
       /\ be'.array_size = be.array_size
       /\ build' = build
       /\ req' = req
       /\ Op \in {"copy", "add"} => (be'.a = be.a /\ be'.b = be.b)
       /\ Op = "mul" => (be'.a = be.a /\ be'.c = be.c)
       /\ Op \in {"triad", "nstream"} => (be'.b = be.b /\ be'.c = be.c)
       /\ Op \in {"dot", "read_arrays"} => (be'.a = be.a /\ be'.b = be.b /\ be'.c = be.c)
  /\ status' = "ready" =>
       /\ be'.array_size = req'.N
       /\ Len(be'.a) = req'.N /\ Len(be'.b) = req'.N /\ Len(be'.c) = req'.N

C9_Frame == [][C9_Step]_vars

C9_Witness ==
  /\ impl = "thrust"
  /\ hist = <<"init_arrays", "mul">>
  /\ req.N = 2
  /\ be.c = <<1, 1>>
  /\ be.b = Fill(2, build.startScalar)
  /\ be.a = <<2, 2>>

\* C1 (as claimed, for the Thrust back-end): every operation that has
\* returned ended with the explicit synchronisation step and left no device
\* work pending.
C1_ExplicitSyncEveryOp ==
  (impl = "thrust" /\ status = "ready" /\ pc = "idle" /\ hist # <<>>) =>
    (be.synced /\ be.pending = <<>>)

\* C1 (amended): at every return point of either back-end no device work is
\* pending; the Thrust operations that launch work on the device arrays
\* (init_arrays, copy, mul, add, triad, nstream) ended with the explicit
\* synchronise(), read_arrays and dot did not, and no std-indices operation
\* has such a step.
C1_NothingPendingAtReturn ==
  (status = "ready" /\ pc = "idle") =>
    /\ be.pending = <<>>
    /\ (impl = "thrust" /\ hist # <<>>) => (be.synced <=> Last(hist) \in Synchronised)
    /\ impl = "std" => ~be.synced

C1_Witness ==
  /\ impl = "thrust"
  /\ build.THRUST_DEVICE_SYSTEM = "HIP"
  /\ pc = "idle"
  /\ hist = <<"init_arrays", "nstream">>
  /\ req.N = 2
  /\ be.synced
  /\ be.pending = <<>>
  /\ be.a[2] = init[1] + init[2] + build.startScalar * init[3]

\* C8: whatever the order of the per-index loads and stores of one kernel
\* call, every task computes its value from the pre-call values at its own
\* index, and the call leaves the arrays the whole-array assignment gives.
C8_OrderIndependent ==
  fly.k # "none" =>
    /\ \A i \in fly.loaded : fly.tmp[i] = KernelElem(impl, fly.k, fly.pre, i)
    /\ fly.todo = {} => be = KernelWhole(impl, fly.k, fly.pre)

C8_Witness ==
  /\ impl = "std"
  /\ fly.k = "nstream"
  /\ fly.todo = {}
  /\ req.N = 2
  /\ fly.pre.a[1] # fly.pre.a[2]
  /\ be.a[1] = fly.pre.a[1] + be.b[1] + build.startScalar * be.c[1]
  /\ be.a[2] = fly.pre.a[2] + be.b[2] + build.startScalar * be.c[2]

Ran(op) == \E k \in 1..Len(hist) : hist[k] = op

====
